---- MODULE Spec2Model ----
(***************************************************************************)
(* Model of the two vector-database composition functions:                 *)
(*   - VectorDBFunctionRunner (src/functions/vectordb/function/fn.py),     *)
(*     the name-reference generator, variant "ref";                        *)
(*   - FunctionRunner (src/function-vectordb/function/fn.py), the          *)
(*     selector-based generator, variant "sel".                            *)
(* One request is fixed in the initial state and served twice in a row by  *)
(* the same runner object; every statement of RunFunction that calls a     *)
(* helper or writes the response is one step of the program counter.       *)
(*                                                                         *)
(* Strings built by f-strings are built here with \o.  A CIDR string       *)
(* "a.b.c.d/p" is the record [addr |-> <<a,b,c,d>>, prefixlen |-> p];      *)
(* parsing turns the octets into one integer and masks the host bits,      *)
(* formatting turns the integer back into octets.  A comma-joined          *)
(* crossplane.io/depends-on annotation is the sequence of the joined       *)
(* logical names.  Loosely typed numeric request values are [num |-> n]    *)
(* or [str |-> s], as a Struct field holds a number or a string.           *)
(***************************************************************************)
EXTENDS Integers, Sequences, FiniteSets, TLC

VARIABLES variant, req, pc, config, subnet_cidrs, resources, response_obj,
          error, invocation, history

vars == <<variant, req, pc, config, subnet_cidrs, resources, response_obj,
          error, invocation, history>>

(***************************************************************************)
(* Bounds of the model.                                                    *)
(***************************************************************************)
MaxAzCount == 5
BigAzCount == 251
MaxInstanceCount == 2
MaxInvocations == 2
MaxParse == 5

(***************************************************************************)
(* Program constants.                                                      *)
(***************************************************************************)
PrefixStride == 8
TierOffset == 6
MaxPrefixLen == 32

Pow2(n) == 2 ^ n

Range(s) == {s[k] : k \in DOMAIN s}

GetIgnoring(d, key, default) == default

(* dict.get(key, default) *)
Get(d, key, default) == IF key \in DOMAIN d THEN d[key] ELSE default

Num(n) == [num |-> n]
Str(s) == [str |-> s]

Cidr(a, b, c, d, p) == [addr |-> <<a, b, c, d>>, prefixlen |-> p]

NoValue == <<>>
Ok(v) == [ok |-> TRUE, val |-> v]
Raise(type, at) == [ok |-> FALSE, val |-> [type |-> type, at |-> at]]

(***************************************************************************)
(* int(x): a number converts to itself, a string converts when it is the   *)
(* decimal form of an integer, anything else raises ValueError.            *)
(***************************************************************************)
ParseRange == 0 .. MaxParse

IntOf(v, at) ==
    IF "num" \in DOMAIN v
    THEN Ok(v.num)
    ELSE IF \E n \in ParseRange : ToString(n) = v.str
         THEN Ok(CHOOSE n \in ParseRange : ToString(n) = v.str)
         ELSE Raise("ValueError", at)

(***************************************************************************)
(* ipaddress.IPv4Network(vpc_cidr, strict=False)                           *)
(***************************************************************************)
IpToInt(addr) == ((addr[1] * 256 + addr[2]) * 256 + addr[3]) * 256 + addr[4]

IntToIp(n) == << (n \div 16777216) % 256, (n \div 65536) % 256,
                 (n \div 256) % 256, n % 256 >>

HostSize(prefixlen) == Pow2(MaxPrefixLen - prefixlen)

IPv4Network(cidr) ==
    IF /\ \A k \in 1..4 : cidr.addr[k] \in 0..255
       /\ cidr.prefixlen \in 0..MaxPrefixLen
    THEN Ok([network_address |->
                 IpToInt(cidr.addr) - (IpToInt(cidr.addr) % HostSize(cidr.prefixlen)),
             prefixlen |-> cidr.prefixlen])
    ELSE Raise("ValueError", "_calculate_subnet_cidrs")

(* str(network) *)
NetworkToStr(network) ==
    [addr |-> IntToIp(network.network_address), prefixlen |-> network.prefixlen]

(***************************************************************************)
(* IPv4Network.subnets(new_prefix=...): the sub-blocks in address order.   *)
(* A /32 network yields itself; a new prefix beyond /32 raises ValueError  *)
(* when the generator is first iterated.                                   *)
(***************************************************************************)
Subnets(network, new_prefix) ==
    IF network.prefixlen = MaxPrefixLen
    THEN Ok(<<network>>)
    ELSE IF new_prefix > MaxPrefixLen
         THEN Raise("ValueError", "_calculate_subnet_cidrs")
         ELSE Ok([j \in 1 .. Pow2(new_prefix - network.prefixlen) |->
                    [network_address |->
                         network.network_address + (j - 1) * HostSize(new_prefix),
                     prefixlen |-> new_prefix]])

(* the index that line 190 selects for zone i: j == i + 6 *)
SubnetIndexSame(i) == TierOffset

SubnetIndexOffByOne(i) == i + TierOffset - 1

SubnetIndex(i) == i + TierOffset

(* the loop over zones lo..hi (split in halves to bound the evaluation
   depth): zone i appends the sub-block with j == i + 6, if there is one *)
RECURSIVE CollectSubnets(_, _, _)
CollectSubnets(subs, lo, hi) ==
    IF lo > hi
    THEN <<>>
    ELSE IF lo = hi
         THEN IF SubnetIndex(lo) + 1 \in DOMAIN subs
              THEN <<NetworkToStr(subs[SubnetIndex(lo) + 1])>>
              ELSE <<>>
         ELSE CollectSubnets(subs, lo, (lo + hi) \div 2)
              \o CollectSubnets(subs, (lo + hi) \div 2 + 1, hi)

_calculate_subnet_cidrs(vpc_cidr, az_count) ==
    LET network == IPv4Network(vpc_cidr) IN
    IF ~network.ok THEN network
    ELSE IF az_count <= 0 THEN Ok(<<>>)
    ELSE LET subnet == Subnets(network.val, network.val.prefixlen + PrefixStride) IN
         IF ~subnet.ok THEN subnet
         ELSE Ok(CollectSubnets(subnet.val, 0, az_count - 1))


(***************************************************************************)
(* VectorDBFunctionRunner._extract_config.  composite_data is the observed *)
(* composite resource of the request; int() is applied to azCount,         *)
(* backupRetentionPeriod and instanceCount in that order.                  *)
(***************************************************************************)
_extract_config(composite_data) ==
    IF "spec" \notin DOMAIN composite_data
    THEN Raise("KeyError", "_extract_config")
    ELSE
    LET spec_data == composite_data["spec"]
        metadata == Get(composite_data, "metadata", <<>>)
        az == IntOf(Get(spec_data, "azCount", Num(3)), "_extract_config")
        brp == IntOf(Get(spec_data, "backupRetentionPeriod", Num(7)), "_extract_config")
        ic == IntOf(Get(spec_data, "instanceCount", Num(2)), "_extract_config")
    IN  IF ~az.ok THEN az
        ELSE IF ~brp.ok THEN brp
        ELSE IF ~ic.ok THEN ic
        ELSE Ok([claim_name |-> Get(metadata, "name", "vectordb"),
                 vpc_cidr |-> Get(spec_data, "vpcCidr", Cidr(10, 10, 0, 0, 16)),
                 region |-> Get(spec_data, "location", "us-west-2"),
                 environment_suffix |-> Get(spec_data, "envSuffix", "dev"),
                 master_username |-> Get(spec_data, "masterUsername", "postgres"),
                 postgres_cluster_name |-> Get(spec_data, "clusterName", "vectordb-cluster"),
                 az_count |-> az.val,
                 engine_version |-> Get(spec_data, "engineVersion", "16.1"),
                 postgres_cluster_min_capacity |-> Get(spec_data, "minCapacity", 1),
                 postgres_cluster_max_capacity |-> Get(spec_data, "maxCapacity", 32),
                 backup_retention_period |-> brp.val,
                 backup_window |-> Get(spec_data, "backupWindow", "03:00-04:00"),
                 maintenance_window |->
                     Get(spec_data, "maintenanceWindow", "sun:04:00-sun:05:00"),
                 deletion_protection |-> Get(spec_data, "deletionProtection", FALSE),
                 namespace |-> Get(metadata, "namespace", "default"),
                 provider_config_ref |-> Get(spec_data, "providerConfigRef", "default"),
                 instance_count |-> ic.val,
                 instance_class |-> Get(spec_data, "instanceClass", "db.serverless"),
                 publicly_accessible |-> Get(spec_data, "publiclyAccessible", TRUE)])

(***************************************************************************)
(* The descriptor builders.  Capacities are counted in half ACUs (0.5 is   *)
(* 1, 16.0 is 32).  Tags, labels and the literal provider settings that    *)
(* carry no reference are left out of the payload.                         *)
(***************************************************************************)
DependsOnKey == "crossplane.io/depends-on"

ResourceNameCounted(cfg, kind) ==
    cfg.claim_name \o "-" \o kind \o "-" \o cfg.environment_suffix
    \o "-" \o ToString(invocation)

ResourceName(cfg, kind) ==
    cfg.claim_name \o "-" \o kind \o "-" \o cfg.environment_suffix

IndexedNameUnindexed(cfg, kind, i) ==
    cfg.claim_name \o "-" \o kind \o "-" \o cfg.environment_suffix

IndexedName(cfg, kind, i) ==
    cfg.claim_name \o "-" \o kind \o "-" \o ToString(i) \o "-" \o cfg.environment_suffix

_create_vpc_cyclic(cfg) ==
    [apiVersion |-> "ec2.aws.upbound.io/v1beta1",
     kind |-> "VPC",
     spec |-> [forProvider |-> [region |-> cfg.region, cidrBlock |-> cfg.vpc_cidr],
               providerConfigRef |-> [name |-> cfg.provider_config_ref]],
     metadata |-> [name |-> ResourceName(cfg, "vpc"),
                   annotations |-> (DependsOnKey :> <<"internet_gateway">>)]]

_create_vpc(cfg) ==
    [apiVersion |-> "ec2.aws.upbound.io/v1beta1",
     kind |-> "VPC",
     spec |-> [forProvider |-> [region |-> cfg.region, cidrBlock |-> cfg.vpc_cidr],
               providerConfigRef |-> [name |-> cfg.provider_config_ref]],
     metadata |-> [name |-> ResourceName(cfg, "vpc")]]

_create_internet_gateway(cfg) ==
    [apiVersion |-> "ec2.aws.upbound.io/v1beta1",
     kind |-> "InternetGateway",
     spec |-> [forProvider |-> [region |-> cfg.region,
                                vpcIdRef |-> [name |-> ResourceName(cfg, "vpc")]],
               providerConfigRef |-> [name |-> cfg.provider_config_ref]],
     metadata |-> [name |-> ResourceName(cfg, "igw"),
                   annotations |-> (DependsOnKey :> <<"vpc">>)]]

(* the three zones of line 270 *)
AvailabilityZones(cfg) == <<cfg.region \o "a", cfg.region \o "b", cfg.region \o "c">>

Min(a, b) == IF a <= b THEN a ELSE b

(* zip(cidrs, availability_zones, strict=False) stops at the shorter list *)
_create_database_subnets(cfg, cidrs) ==
    [k \in 1 .. Min(Len(cidrs), Len(AvailabilityZones(cfg))) |->
        [apiVersion |-> "ec2.aws.upbound.io/v1beta1",
         kind |-> "Subnet",
         spec |-> [forProvider |-> [region |-> cfg.region,
                                    vpcIdRef |-> [name |-> ResourceName(cfg, "vpc")],
                                    cidrBlock |-> cidrs[k],
                                    availabilityZone |-> AvailabilityZones(cfg)[k]],
                   providerConfigRef |-> [name |-> cfg.provider_config_ref]],
         metadata |-> [name |-> IndexedName(cfg, "subnet", k - 1),
                       annotations |-> (DependsOnKey :> <<"vpc">>)]]]

_create_route_table_associations(cfg, subnet_count) ==
    [k \in 1 .. subnet_count |->
        [apiVersion |-> "ec2.aws.upbound.io/v1beta1",
         kind |-> "RouteTableAssociation",
         spec |-> [forProvider |->
                       [region |-> cfg.region,
                        subnetIdRef |-> [name |-> IndexedName(cfg, "subnet", k - 1)],
                        routeTableIdRef |-> [name |-> ResourceName(cfg, "route-table")]],
                   providerConfigRef |-> [name |-> cfg.provider_config_ref]],
         metadata |-> [name |-> IndexedName(cfg, "route-table-association", k - 1),
                       annotations |->
                           (DependsOnKey :> <<"subnet_" \o ToString(k - 1), "route_table">>)]]]

_create_igw_route_unordered(cfg) ==
    [apiVersion |-> "ec2.aws.upbound.io/v1beta1",
     kind |-> "Route",
     spec |-> [forProvider |->
                   [region |-> cfg.region,
                    gatewayIdRef |-> [name |-> ResourceName(cfg, "igw")],
                    routeTableIdRef |-> [name |-> ResourceName(cfg, "route-table")]],
               providerConfigRef |-> [name |-> cfg.provider_config_ref]],
     metadata |-> [name |-> ResourceName(cfg, "igw-route"),
                   annotations |-> (DependsOnKey :> <<"route_table">>)]]

_create_igw_route(cfg) ==
    [apiVersion |-> "ec2.aws.upbound.io/v1beta1",
     kind |-> "Route",
     spec |-> [forProvider |->
                   [region |-> cfg.region,
                    gatewayIdRef |-> [name |-> ResourceName(cfg, "igw")],
                    routeTableIdRef |-> [name |-> ResourceName(cfg, "route-table")]],
               providerConfigRef |-> [name |-> cfg.provider_config_ref]],
     metadata |-> [name |-> ResourceName(cfg, "igw-route"),
                   annotations |-> (DependsOnKey :> <<"internet_gateway", "route_table">>)]]

_create_database_route_table(cfg) ==
    [apiVersion |-> "ec2.aws.upbound.io/v1beta1",
     kind |-> "RouteTable",
     spec |-> [forProvider |-> [region |-> cfg.region,
                                vpcIdRef |-> [name |-> ResourceName(cfg, "vpc")]],
               providerConfigRef |-> [name |-> cfg.provider_config_ref]],
     metadata |-> [name |-> ResourceName(cfg, "route-table"),
                   annotations |-> (DependsOnKey :> <<"vpc">>)]]

_create_database_security_group(cfg) ==
    [apiVersion |-> "ec2.aws.upbound.io/v1beta1",
     kind |-> "SecurityGroup",
     spec |-> [forProvider |-> [region |-> cfg.region,
                                vpcIdRef |-> [name |-> ResourceName(cfg, "vpc")]],
               providerConfigRef |-> [name |-> cfg.provider_config_ref]],
     metadata |-> [name |-> ResourceName(cfg, "security-group"),
                   annotations |-> (DependsOnKey :> <<"vpc">>)]]

_create_security_group_rule(cfg) ==
    [apiVersion |-> "ec2.aws.upbound.io/v1beta1",
     kind |-> "SecurityGroupRule",
     spec |-> [forProvider |->
                   [region |-> cfg.region,
                    type |-> "ingress",
                    securityGroupIdRef |-> [name |-> ResourceName(cfg, "security-group")]],
               providerConfigRef |-> [name |-> cfg.provider_config_ref]],
     metadata |-> [name |-> ResourceName(cfg, "postgres-ingress"),
                   annotations |-> (DependsOnKey :> <<"security_group">>)]]

_create_egress_rule(cfg) ==
    [apiVersion |-> "ec2.aws.upbound.io/v1beta1",
     kind |-> "SecurityGroupRule",
     spec |-> [forProvider |->
                   [region |-> cfg.region,
                    type |-> "egress",
                    securityGroupIdRef |-> [name |-> ResourceName(cfg, "security-group")]],
               providerConfigRef |-> [name |-> cfg.provider_config_ref]],
     metadata |-> [name |-> ResourceName(cfg, "egress-all"),
                   annotations |-> (DependsOnKey :> <<"security_group">>)]]

(* range(n) as a sequence of length max(n, 0) *)
RangeLen(n) == IF n > 0 THEN n ELSE 0

_create_subnet_group(cfg) ==
    [apiVersion |-> "rds.aws.upbound.io/v1beta1",
     kind |-> "SubnetGroup",
     spec |-> [forProvider |->
                   [region |-> cfg.region,
                    subnetIdRefs |-> [k \in 1 .. RangeLen(cfg.az_count) |->
                                         [name |-> IndexedName(cfg, "subnet", k - 1)]]],
               providerConfigRef |-> [name |-> cfg.provider_config_ref]],
     metadata |-> [name |-> ResourceName(cfg, "subnet-group"),
                   annotations |->
                       (DependsOnKey :> [k \in 1 .. RangeLen(cfg.az_count) |->
                                            "subnet_" \o ToString(k - 1)])]]

_create_monitoring_role(cfg) ==
    [apiVersion |-> "iam.aws.upbound.io/v1beta1",
     kind |-> "Role",
     spec |-> [forProvider |->
                   [managedPolicyArns |->
                        <<"arn:aws:iam::aws:policy/service-role/AmazonRDSEnhancedMonitoringRole">>],
               providerConfigRef |-> [name |-> cfg.provider_config_ref]],
     metadata |-> [name |-> ResourceName(cfg, "monitoring-role")]]

_create_aurora_cluster(cfg) ==
    [apiVersion |-> "rds.aws.upbound.io/v1beta1",
     kind |-> "Cluster",
     spec |-> [forProvider |->
                   [region |-> cfg.region,
                    engineVersion |-> cfg.engine_version,
                    masterUsername |-> cfg.master_username,
                    autoGeneratePassword |-> TRUE,
                    masterPasswordSecretRef |->
                        [name |-> ResourceName(cfg, "password"),
                         namespace |-> cfg.namespace,
                         key |-> "password"],
                    dbSubnetGroupNameRef |-> [name |-> ResourceName(cfg, "subnet-group")],
                    vpcSecurityGroupIdRefs |->
                        <<[name |-> ResourceName(cfg, "security-group")]>>,
                    backupRetentionPeriod |-> cfg.backup_retention_period,
                    preferredBackupWindow |-> cfg.backup_window,
                    preferredMaintenanceWindow |-> cfg.maintenance_window,
                    serverlessv2ScalingConfiguration |->
                        <<[minCapacity |-> cfg.postgres_cluster_min_capacity,
                           maxCapacity |-> cfg.postgres_cluster_max_capacity]>>,
                    deletionProtection |-> cfg.deletion_protection],
               providerConfigRef |-> [name |-> cfg.provider_config_ref]],
     metadata |-> [name |-> cfg.postgres_cluster_name,
                   annotations |->
                       (DependsOnKey :> <<"subnet_group", "security_group", "password_secret">>)]]

_create_aurora_instances_one_based(cfg) ==
    [k \in 1 .. RangeLen(cfg.instance_count) |->
        [apiVersion |-> "rds.aws.upbound.io/v1beta1",
         kind |-> "ClusterInstance",
         spec |-> [forProvider |->
                       [region |-> cfg.region,
                        engineVersion |-> cfg.engine_version,
                        instanceClass |-> cfg.instance_class,
                        publiclyAccessible |-> cfg.publicly_accessible,
                        clusterIdentifierRef |-> [name |-> cfg.postgres_cluster_name],
                        dbSubnetGroupNameRef |->
                            [name |-> ResourceName(cfg, "subnet-group")],
                        monitoringRoleArnRef |->
                            [name |-> ResourceName(cfg, "monitoring-role")],
                        promotionTier |-> k],
                   providerConfigRef |-> [name |-> cfg.provider_config_ref]],
         metadata |-> [name |-> cfg.postgres_cluster_name \o "-instance-" \o ToString(k),
                       annotations |->
                           (DependsOnKey :> <<"aurora_cluster", "subnet_group",
                                              "security_group", "monitoring_role">>)]]]

_create_aurora_instances(cfg) ==
    [k \in 1 .. RangeLen(cfg.instance_count) |->
        [apiVersion |-> "rds.aws.upbound.io/v1beta1",
         kind |-> "ClusterInstance",
         spec |-> [forProvider |->
                       [region |-> cfg.region,
                        engineVersion |-> cfg.engine_version,
                        instanceClass |-> cfg.instance_class,
                        publiclyAccessible |-> cfg.publicly_accessible,
                        clusterIdentifierRef |-> [name |-> cfg.postgres_cluster_name],
                        dbSubnetGroupNameRef |->
                            [name |-> ResourceName(cfg, "subnet-group")],
                        monitoringRoleArnRef |->
                            [name |-> ResourceName(cfg, "monitoring-role")],
                        promotionTier |-> k - 1],
                   providerConfigRef |-> [name |-> cfg.provider_config_ref]],
         metadata |-> [name |-> cfg.postgres_cluster_name \o "-instance-" \o ToString(k),
                       annotations |->
                           (DependsOnKey :> <<"aurora_cluster", "subnet_group",
                                              "security_group", "monitoring_role">>)]]]


(***************************************************************************)
(* Requests.  The observed composite resource is a function from the keys  *)
(* that are present to their values.                                       *)
(***************************************************************************)
Opt(key, values) == {<<>>} \cup {key :> v : v \in values}

ParentCidrs ==
    { Cidr(10, 10, 5, 7, 16), Cidr(10, 0, 0, 0, 8), Cidr(10, 10, 0, 0, 24),
      Cidr(10, 10, 0, 0, 25), Cidr(10, 10, 0, 1, 32), Cidr(100, 64, 0, 0, 10),
      Cidr(256, 256, 256, 256, 16) }

AzCounts ==
    {Num(n) : n \in 0 .. MaxAzCount} \cup {Str("2"), Str("abc")}

InstanceCounts == {Num(n) : n \in 0 .. MaxInstanceCount}

(* specs that supply the database settings, name the region by `region`,
   name an existing network, or carry a value int() cannot convert;
   capacities are in half ACUs *)
RefExtraSpecs ==
    { [location |-> "eu-central-1", engineVersion |-> "16.7", minCapacity |-> 8,
       maxCapacity |-> 64, masterUsername |-> "admin",
       backupRetentionPeriod |-> Num(14), backupWindow |-> "03:00-03:30",
       maintenanceWindow |-> "sun:02:00-sun:03:00", deletionProtection |-> TRUE,
       generatePassword |-> FALSE],
      [engineVersion |-> "16.7"],
      [minCapacity |-> 8, maxCapacity |-> 4],
      [region |-> "us-east-1"],
      [vpcId |-> "vpc-existing-12345"],
      [location |-> "us-east-1", vpcId |-> "vpc-existing-12345"],
      [backupRetentionPeriod |-> Str("abc")],
      [instanceCount |-> Str("abc")] }

(* every combination of the small values, and a zone count beyond the 250
   sub-blocks that follow the tier offset on two parents *)
RefSpecs ==
    { a @@ b @@ c @@ d :
        a \in Opt("vpcCidr", ParentCidrs), b \in Opt("azCount", AzCounts),
        c \in Opt("instanceCount", InstanceCounts), d \in Opt("location", {"us-east-1"}) }
    \cup { a @@ ("azCount" :> Num(BigAzCount)) :
             a \in Opt("vpcCidr", {Cidr(10, 10, 0, 0, 24)}) }
    \cup RefExtraSpecs

RefRequests ==
    {<<>>, "metadata" :> [name |-> "db1"]}
    \cup { m @@ ("spec" :> sp) :
             m \in Opt("metadata", {[name |-> "db1"]}), sp \in RefSpecs }

(***************************************************************************)
(* RunFunction of the name-reference generator, statement by statement.    *)
(***************************************************************************)
Locals == <<config, subnet_cidrs, resources, response_obj, error>>

Fixed == <<variant, req, invocation, history>>

Fail(exc) ==
    /\ pc' = "failed"
    /\ error' = exc

(* resources.append((name, res)) at the statement `from` *)
AppendOne(from, to, name, res) ==
    /\ variant = "ref"
    /\ pc = from
    /\ resources' = Append(resources, <<name, res>>)
    /\ pc' = to
    /\ UNCHANGED <<config, subnet_cidrs, response_obj, error, Fixed>>

(* for i, res in enumerate(list): resources.append((f"{stem}{i + first}", res)) *)
AppendEach(from, to, stem, first, list) ==
    /\ variant = "ref"
    /\ pc = from
    /\ resources' = resources \o
           [k \in 1 .. Len(list) |-> <<stem \o ToString(k - 1 + first), list[k]>>]
    /\ pc' = to
    /\ UNCHANGED <<config, subnet_cidrs, response_obj, error, Fixed>>

ExtractConfig ==
    /\ variant = "ref"
    /\ pc = "extract_config"
    /\ LET r == _extract_config(req) IN
       IF r.ok
       THEN /\ config' = r.val
            /\ pc' = "calculate_subnet_cidrs"
            /\ UNCHANGED error
       ELSE /\ Fail(r.val)
            /\ UNCHANGED config
    /\ UNCHANGED <<subnet_cidrs, resources, response_obj, Fixed>>

CalculateSubnetCidrs ==
    /\ variant = "ref"
    /\ pc = "calculate_subnet_cidrs"
    /\ LET r == _calculate_subnet_cidrs(config.vpc_cidr, config.az_count) IN
       IF r.ok
       THEN /\ subnet_cidrs' = r.val
            /\ pc' = "create_vpc"
            /\ UNCHANGED error
       ELSE /\ Fail(r.val)
            /\ UNCHANGED subnet_cidrs
    /\ UNCHANGED <<config, resources, response_obj, Fixed>>

CreateVpcWriteThrough ==
    /\ variant = "ref"
    /\ pc = "create_vpc"
    /\ resources' = Append(resources, <<"vpc", _create_vpc(config)>>)
    /\ response_obj' = ("vpc" :> _create_vpc(config))
    /\ pc' = "create_internet_gateway"
    /\ UNCHANGED <<config, subnet_cidrs, error, Fixed>>

CreateVpc ==
    AppendOne("create_vpc", "create_internet_gateway", "vpc", _create_vpc(config))

CreateInternetGateway ==
    AppendOne("create_internet_gateway", "create_database_subnets",
              "internet_gateway", _create_internet_gateway(config))

CreateDatabaseSubnets ==
    AppendEach("create_database_subnets", "create_database_route_table",
               "subnet_", 0, _create_database_subnets(config, subnet_cidrs))

CreateDatabaseRouteTable ==
    AppendOne("create_database_route_table", "create_igw_route",
              "route_table", _create_database_route_table(config))

CreateIgwRoute ==
    AppendOne("create_igw_route", "create_route_table_associations",
              "igw_route", _create_igw_route(config))

(* len(subnet_resources): the subnets appended by CreateDatabaseSubnets *)
SubnetResourceCount ==
    Cardinality({k \in DOMAIN resources : resources[k][2].kind = "Subnet"})

CreateRouteTableAssociations ==
    AppendEach("create_route_table_associations", "create_database_security_group",
               "route_table_association_", 0,
               _create_route_table_associations(config, SubnetResourceCount))

CreateDatabaseSecurityGroup ==
    AppendOne("create_database_security_group", "create_security_group_rule",
              "security_group", _create_database_security_group(config))

CreateSecurityGroupRule ==
    AppendOne("create_security_group_rule", "create_egress_rule",
              "security_group_rule", _create_security_group_rule(config))

CreateEgressRule ==
    AppendOne("create_egress_rule", "create_subnet_group",
              "egress_rule", _create_egress_rule(config))

CreateSubnetGroup ==
    AppendOne("create_subnet_group", "create_monitoring_role",
              "subnet_group", _create_subnet_group(config))

CreateMonitoringRole ==
    AppendOne("create_monitoring_role", "create_aurora_cluster",
              "monitoring_role", _create_monitoring_role(config))

CreateAuroraCluster ==
    AppendOne("create_aurora_cluster", "create_aurora_instances",
              "aurora_cluster", _create_aurora_cluster(config))

CreateAuroraInstances ==
    AppendEach("create_aurora_instances", "update_response",
               "aurora_instance_", 1, _create_aurora_instances(config))

(* the names written so far by a list of (name, res) pairs *)
Names(list) == {list[k][1] : k \in DOMAIN list}

(* for name, res in resources: resource.update(desired.resources[name], res) *)
UpdateAllButLast(desired, list) ==
    [n \in DOMAIN desired \cup Names(SubSeq(list, 1, Len(list) - 1)) |->
        IF n \in Names(SubSeq(list, 1, Len(list) - 1))
        THEN list[CHOOSE k \in 1 .. Len(list) - 1 :
                    /\ list[k][1] = n
                    /\ \A m \in 1 .. Len(list) - 1 : list[m][1] = n => m <= k][2]
        ELSE desired[n]]

UpdateAll(desired, list) ==
    [n \in DOMAIN desired \cup Names(list) |->
        IF n \in Names(list)
        THEN list[CHOOSE k \in DOMAIN list :
                    /\ list[k][1] = n
                    /\ \A m \in DOMAIN list : list[m][1] = n => m <= k][2]
        ELSE desired[n]]

UpdateResponse ==
    /\ variant = "ref"
    /\ pc = "update_response"
    /\ response_obj' = UpdateAll(response_obj, resources)
    /\ pc' = "done"
    /\ UNCHANGED <<config, subnet_cidrs, resources, error, Fixed>>


(***************************************************************************)
(* FunctionRunner of the selector-based generator.                         *)
(***************************************************************************)
_get_availability_zone_first(region, az_suffix) == region \o "a"

_get_availability_zone(region, az_suffix) ==
    LET az_mapping ==
            [r \in {"eu-central-2", "eu-west-2", "eu-central-1", "us-east-1",
                    "us-east-2", "ap-southeast-2", "ca-central-1", "af-south-1"} |->
                r \o az_suffix]
    IN  Get(az_mapping, region, region \o az_suffix)

SelExtractWith(composite, engine_default, generate_default) ==
    IF "spec" \notin DOMAIN composite
    THEN Raise("ValueError", "RunFunction")
    ELSE
    LET spec_dict == composite["spec"] IN
    IF "location" \notin DOMAIN spec_dict
    THEN Raise("KeyError", "RunFunction")
    ELSE Ok([location |-> spec_dict["location"],
             engine_version |-> Get(spec_dict, "engineVersion", engine_default),
             min_capacity |-> Get(spec_dict, "minCapacity", 2),
             max_capacity |-> Get(spec_dict, "maxCapacity", 16),
             database_name |-> Get(spec_dict, "databaseName", "vectordb"),
             master_username |-> Get(spec_dict, "masterUsername", "postgres"),
             backup_retention_period |-> Get(spec_dict, "backupRetentionPeriod", 7),
             backup_window |-> Get(spec_dict, "backupWindow", "06:42-07:12"),
             maintenance_window |->
                 Get(spec_dict, "maintenanceWindow", "wed:04:35-wed:05:05"),
             deletion_protection |-> Get(spec_dict, "deletionProtection", TRUE),
             generate_password |-> Get(spec_dict, "generatePassword", generate_default)])

SelExtractOldEngine(composite) == SelExtractWith(composite, "16.1", TRUE)

SelExtractNoPassword(composite) == SelExtractWith(composite, "16.6", FALSE)

(* lines 42-53: the locals read from the request's spec.  Indexing the
   Struct with a missing "spec" raises, and so does spec_dict["location"]
   when the location is missing; both happen before the first write. *)
SelExtract(composite) ==
    IF "spec" \notin DOMAIN composite
    THEN Raise("ValueError", "RunFunction")
    ELSE
    LET spec_dict == composite["spec"] IN
    IF "location" \notin DOMAIN spec_dict
    THEN Raise("KeyError", "RunFunction")
    ELSE Ok([location |-> spec_dict["location"],
             engine_version |-> Get(spec_dict, "engineVersion", "16.6"),
             min_capacity |-> Get(spec_dict, "minCapacity", 2),
             max_capacity |-> Get(spec_dict, "maxCapacity", 16),
             database_name |-> Get(spec_dict, "databaseName", "vectordb"),
             master_username |-> Get(spec_dict, "masterUsername", "postgres"),
             backup_retention_period |-> Get(spec_dict, "backupRetentionPeriod", 7),
             backup_window |-> Get(spec_dict, "backupWindow", "06:42-07:12"),
             maintenance_window |->
                 Get(spec_dict, "maintenanceWindow", "wed:04:35-wed:05:05"),
             deletion_protection |-> Get(spec_dict, "deletionProtection", TRUE),
             generate_password |-> Get(spec_dict, "generatePassword", TRUE)])

(* the shape shared by the managed resources of the selector generator *)
Managed(apiVersion, kind, external_name, forProvider) ==
    [apiVersion |-> apiVersion,
     kind |-> kind,
     metadata |-> [annotations |-> ("crossplane.io/external-name" :> external_name)],
     spec |-> [forProvider |-> forProvider,
               providerConfigRef |-> [name |-> "creds-provider"]]]

Controller == [matchControllerRef |-> TRUE]

AzSuffixes == <<"a", "b">>

SelSubnetsOneRange(cfg, tier, first_octet) ==
    [k \in 1 .. Len(AzSuffixes) |->
        << tier \o "-subnet-" \o ToString(k),
           Managed("vpc.aws.upbound.io/v1beta1", "Subnet",
                   "vector-db-" \o tier \o "-subnet-" \o ToString(k),
                   [region |-> cfg.location,
                    vpcIdSelector |-> Controller,
                    cidrBlock |-> Cidr(10, 0, (k - 1) + 1, 0, 24),
                    availabilityZone |->
                        _get_availability_zone(cfg.location, AzSuffixes[k])]) >>]

(* a subnet tier: for i, az_suffix in enumerate(["a", "b"]) *)
SelSubnets(cfg, tier, first_octet) ==
    [k \in 1 .. Len(AzSuffixes) |->
        << tier \o "-subnet-" \o ToString(k),
           Managed("vpc.aws.upbound.io/v1beta1", "Subnet",
                   "vector-db-" \o tier \o "-subnet-" \o ToString(k),
                   [region |-> cfg.location,
                    vpcIdSelector |-> Controller,
                    cidrBlock |-> Cidr(10, 0, (k - 1) + first_octet, 0, 24),
                    availabilityZone |->
                        _get_availability_zone(cfg.location, AzSuffixes[k])]) >>]

SelRouteTable(cfg, tier, short) ==
    << tier \o "-route-table",
       Managed("vpc.aws.upbound.io/v1beta1", "RouteTable", "vector-db-" \o short \o "-rt",
               [region |-> cfg.location, vpcIdSelector |-> Controller]) >>

SelRoute(cfg, tier) ==
    << tier \o "-route",
       Managed("vpc.aws.upbound.io/v1beta1", "Route", "vector-db-" \o tier \o "-route",
               [region |-> cfg.location,
                routeTableIdSelector |-> Controller,
                destinationCidrBlock |-> Cidr(0, 0, 0, 0, 0),
                gatewayIdSelector |-> Controller]) >>

(* for i in range(1, 3) *)
SelAssociations(cfg, tier) ==
    [i \in 1 .. 2 |->
        << tier \o "-rt-assoc-" \o ToString(i),
           Managed("vpc.aws.upbound.io/v1beta1", "RouteTableAssociation",
                   "vector-db-" \o tier \o "-rt-assoc-" \o ToString(i),
                   [region |-> cfg.location,
                    subnetIdSelector |-> Controller,
                    routeTableIdSelector |-> Controller]) >>]

(* the resources written by each numbered section of RunFunction, in order *)
SelSections(cfg) ==
    << (* 1. VPC *)
       << << "vpc",
             Managed("vpc.aws.upbound.io/v1beta1", "VPC", "vector-db-vpc",
                     [region |-> cfg.location, cidrBlock |-> Cidr(10, 0, 0, 0, 16)]) >> >>,
       (* 2. Internet Gateway *)
       << << "internet-gateway",
             Managed("vpc.aws.upbound.io/v1beta1", "InternetGateway", "vector-db-igw",
                     [region |-> cfg.location, vpcIdSelector |-> Controller]) >> >>,
       (* 3. Public Subnets *)
       SelSubnets(cfg, "public", 1),
       (* 4. Private Subnets *)
       SelSubnets(cfg, "private", 3),
       (* 5. Database Subnets *)
       SelSubnets(cfg, "database", 5),
       (* 6. Database Subnet Group *)
       << << "database-subnet-group",
             Managed("rds.aws.upbound.io/v1beta1", "SubnetGroup", "vector-db-subnet-group",
                     [region |-> cfg.location,
                      subnetIds |-> <<"dummy-subnet-1", "dummy-subnet-2">>]) >> >>,
       (* 7. Route Tables *)
       << SelRouteTable(cfg, "public", "public"),
          SelRouteTable(cfg, "database", "database") >>,
       (* 8. Routes *)
       << SelRoute(cfg, "public"), SelRoute(cfg, "database") >>,
       (* 9. Route Table Associations *)
       SelAssociations(cfg, "public") \o SelAssociations(cfg, "database"),
       (* 10. Security Group for Aurora *)
       << << "aurora-security-group",
             Managed("vpc.aws.upbound.io/v1beta1", "SecurityGroup", "vector-db-aurora-sg",
                     [region |-> cfg.location, vpcIdSelector |-> Controller]) >> >>,
       (* 11. IAM Role for RDS Monitoring *)
       << << "rds-monitoring-role",
             Managed("iam.aws.upbound.io/v1beta1", "Role", "vector-db-monitoring-role",
                     [region |-> cfg.location]) >> >>,
       (* 12. Parameter Group *)
       << << "parameter-group",
             Managed("rds.aws.upbound.io/v1beta1", "ParameterGroup",
                     "vector-db-parameter-group",
                     [region |-> cfg.location, family |-> "aurora-postgresql16"]) >> >>,
       (* 13. Cluster Parameter Group *)
       << << "cluster-parameter-group",
             Managed("rds.aws.upbound.io/v1beta1", "ClusterParameterGroup",
                     "vector-db-cluster-parameter-group",
                     [region |-> cfg.location, family |-> "aurora-postgresql16"]) >> >>,
       (* 14. Random password generator *)
       IF cfg.generate_password
       THEN << << "random-password",
                  Managed("random.upbound.io/v1beta1", "Password", "vector-db-password",
                          [length |-> 16, special |-> TRUE]) >> >>
       ELSE <<>>,
       (* 15. Aurora PostgreSQL Cluster *)
       << << "aurora-cluster",
             Managed("rds.aws.upbound.io/v1beta1", "Cluster", "vector-db-cluster",
                     [region |-> cfg.location,
                      engineVersion |-> cfg.engine_version,
                      masterUsername |-> cfg.master_username,
                      masterPassword |-> "dummy-password",
                      deletionProtection |-> cfg.deletion_protection,
                      backupRetentionPeriod |-> cfg.backup_retention_period,
                      preferredBackupWindow |-> cfg.backup_window,
                      preferredMaintenanceWindow |-> cfg.maintenance_window,
                      monitoringRoleArn |-> "dummy-monitoring-role",
                      dbClusterParameterGroupName |-> "dummy-cluster-parameter-group",
                      vpcSecurityGroupIds |-> <<"dummy-sg">>,
                      dbSubnetGroupName |-> "dummy-subnet-group"]) >> >>,
       (* 16. Aurora Serverless v2 Instance *)
       << << "aurora-instance",
             Managed("rds.aws.upbound.io/v1beta1", "Instance", "vector-db-instance",
                     [region |-> cfg.location,
                      instanceClass |-> "db.serverless",
                      clusterIdentifier |-> "dummy-cluster",
                      dbParameterGroupName |-> "dummy-parameter-group",
                      monitoringRoleArn |-> "dummy-monitoring-role",
                      serverlessV2ScalingConfiguration |->
                          [minCapacity |-> cfg.min_capacity,
                           maxCapacity |-> cfg.max_capacity]]) >> >>,
       (* 17. Secret for database credentials *)
       << << "db-secret",
             [apiVersion |-> "v1",
              kind |-> "Secret",
              metadata |-> [name |-> "vector-db-secret",
                            annotations |->
                                ("crossplane.io/external-name" :> "vector-db-secret")],
              type |-> "Opaque",
              stringData |-> [username |-> cfg.master_username,
                              password |-> "dummy-password",
                              endpoint |-> "dummy-endpoint",
                              port |-> "5432",
                              database |-> cfg.database_name]] >> >>
    >>

SectionCount == 17

SectionPc(k) == "section_" \o ToString(k)

(* specs that supply the database settings, name the region by `region`,
   or name an existing network *)
SelExtraSpecs ==
    { [location |-> "eu-central-1", engineVersion |-> "16.7", minCapacity |-> 4,
       maxCapacity |-> 32, databaseName |-> "myvectordb", masterUsername |-> "admin",
       backupRetentionPeriod |-> 14, backupWindow |-> "03:00-03:30",
       maintenanceWindow |-> "sun:02:00-sun:03:00", deletionProtection |-> FALSE,
       generatePassword |-> FALSE],
      [location |-> "us-west-2", minCapacity |-> 8, maxCapacity |-> 4],
      [region |-> "us-east-1"],
      [location |-> "us-west-2", vpcId |-> "vpc-existing-12345"] }

SelRequests ==
    {<<>>}
    \cup { "spec" :> (a @@ b @@ c) :
             a \in Opt("location", {"us-east-1", "eu-north-1"}),
             b \in Opt("generatePassword", {TRUE, FALSE}),
             c \in Opt("engineVersion", {"15.4"}) }
    \cup { "spec" :> sp : sp \in SelExtraSpecs }

SelExtractConfig ==
    /\ variant = "sel"
    /\ pc = "read_spec"
    /\ LET r == SelExtract(req) IN
       IF r.ok
       THEN /\ config' = r.val
            /\ pc' = SectionPc(1)
            /\ UNCHANGED error
       ELSE /\ Fail(r.val)
            /\ UNCHANGED config
    /\ UNCHANGED <<subnet_cidrs, resources, response_obj, Fixed>>

(* one numbered section: its resource.update calls on rsp.desired.resources *)
SelSection ==
    /\ variant = "sel"
    /\ \E k \in 1 .. SectionCount :
         /\ pc = SectionPc(k)
         /\ response_obj' = UpdateAll(response_obj, SelSections(config)[k])
         /\ pc' = IF k < SectionCount THEN SectionPc(k + 1) ELSE "done"
    /\ UNCHANGED <<config, subnet_cidrs, resources, error, Fixed>>

(***************************************************************************)
(* The call returns (or raises) and the runner serves the request again.   *)
(***************************************************************************)
EntryPc(v) == IF v = "ref" THEN "extract_config" ELSE "read_spec"

Outcome ==
    [returned |-> pc = "done", desired |-> response_obj, error |-> error]

Return ==
    /\ pc \in {"done", "failed"}
    /\ history' = Append(history, Outcome)
    /\ IF invocation < MaxInvocations
       THEN /\ invocation' = invocation + 1
            /\ pc' = EntryPc(variant)
            /\ config' = NoValue
            /\ subnet_cidrs' = <<>>
            /\ resources' = <<>>
            /\ response_obj' = NoValue
            /\ error' = NoValue
       ELSE /\ pc' = "idle"
            /\ UNCHANGED <<invocation, Locals>>
    /\ UNCHANGED <<variant, req>>

Init ==
    /\ variant \in {"ref", "sel"}
    /\ req \in (IF variant = "ref" THEN RefRequests ELSE SelRequests)
    /\ pc = EntryPc(variant)
    /\ config = NoValue
    /\ subnet_cidrs = <<>>
    /\ resources = <<>>
    /\ response_obj = NoValue
    /\ error = NoValue
    /\ invocation = 1
    /\ history = <<>>

Next ==
    \/ ExtractConfig
    \/ CalculateSubnetCidrs
    \/ CreateVpc
    \/ CreateInternetGateway
    \/ CreateDatabaseSubnets
    \/ CreateDatabaseRouteTable
    \/ CreateIgwRoute
    \/ CreateRouteTableAssociations
    \/ CreateDatabaseSecurityGroup
    \/ CreateSecurityGroupRule
    \/ CreateEgressRule
    \/ CreateSubnetGroup
    \/ CreateMonitoringRole
    \/ CreateAuroraCluster
    \/ CreateAuroraInstances
    \/ UpdateResponse
    \/ SelExtractConfig
    \/ SelSection
    \/ Return

Spec == Init /\ [][Next]_vars


(***************************************************************************)
(* Vocabulary of the properties.                                           *)
(***************************************************************************)
IsSet(v) == DOMAIN v # {}

(* _calculate_subnet_cidrs has returned its list in the current invocation *)
AllocationReturned ==
    /\ variant = "ref"
    /\ IsSet(config)
    /\ ~IsSet(error)
    /\ pc \notin {"extract_config", "calculate_subnet_cidrs"}

(* _calculate_subnet_cidrs has raised in the current invocation *)
AllocationRaised ==
    /\ variant = "ref"
    /\ IsSet(error)
    /\ error.at = "_calculate_subnet_cidrs"

AllocationCompleted == AllocationReturned \/ AllocationRaised

ValidCidr(cidr) == IPv4Network(cidr).ok

Net(cidr) == IPv4Network(cidr).val

FirstAddress(network) == network.network_address

LastAddress(network) == network.network_address + (HostSize(network.prefixlen) - 1)

Overlaps(a, b) ==
    /\ FirstAddress(a) <= LastAddress(b)
    /\ FirstAddress(b) <= LastAddress(a)

SubnetOf(a, b) ==
    /\ FirstAddress(b) <= FirstAddress(a)
    /\ LastAddress(a) <= LastAddress(b)

(* the number of sub-blocks the parent has at prefix length parent + 8 *)
SubBlockCount(network) ==
    IF network.prefixlen + PrefixStride <= MaxPrefixLen THEN Pow2(PrefixStride) ELSE 0

CanYield(cidr, n) ==
    /\ ValidCidr(cidr)
    /\ TierOffset + n <= SubBlockCount(Net(cidr))

(* the sub-block at index j of the parent split at prefix length parent + 8 *)
SubBlockAt(cidr, j) ==
    NetworkToStr([network_address |->
                      Net(cidr).network_address
                      + j * HostSize(Net(cidr).prefixlen + PrefixStride),
                  prefixlen |-> Net(cidr).prefixlen + PrefixStride])

(* C1: for a valid parent and a zone count of at least 2, the returned
   blocks are pairwise non-overlapping and each lies inside the parent. *)
C1_CidrNonOverlap ==
    (AllocationReturned /\ config.az_count >= 2) =>
        /\ \A a, b \in DOMAIN subnet_cidrs :
               a # b => ~Overlaps(Net(subnet_cidrs[a]), Net(subnet_cidrs[b]))
        /\ \A a \in DOMAIN subnet_cidrs :
               SubnetOf(Net(subnet_cidrs[a]), Net(config.vpc_cidr))

C1_Witness ==
    /\ AllocationReturned
    /\ config.az_count >= 2
    /\ Len(subnet_cidrs) >= 2

(* the n blocks in ascending order, block i being sub-block i + 6 *)
ExactBlocks(cidr, n, blocks) ==
    /\ Len(blocks) = n
    /\ \A k \in DOMAIN blocks : blocks[k] = SubBlockAt(cidr, (k - 1) + TierOffset)
    /\ \A k \in 1 .. Len(blocks) - 1 :
           FirstAddress(Net(blocks[k])) < FirstAddress(Net(blocks[k + 1]))

(* C2 as stated: for every (valid) parent and zone count n the call
   returns exactly n blocks, ascending, block i at index i + 6. *)
C2_Original ==
    (AllocationCompleted /\ ValidCidr(config.vpc_cidr) /\ config.az_count >= 0) =>
        /\ AllocationReturned
        /\ ExactBlocks(config.vpc_cidr, config.az_count, subnet_cidrs)

(* C2 amended: when the parent can yield 6 + n sub-blocks at prefix length
   parent + 8 (prefix length at most 24, 0 <= n <= 250), the call returns
   exactly n blocks, ascending, block i at index i + 6. *)
C2_ExactBlocksWhenRoom ==
    (/\ AllocationCompleted
     /\ config.az_count >= 0
     /\ CanYield(config.vpc_cidr, config.az_count)) =>
        /\ AllocationReturned
        /\ ExactBlocks(config.vpc_cidr, config.az_count, subnet_cidrs)

C2_Witness ==
    /\ AllocationReturned
    /\ CanYield(config.vpc_cidr, config.az_count)
    /\ config.az_count >= 2
    /\ Len(subnet_cidrs) = config.az_count

(* C3: when the parent cannot yield 6 + n sub-blocks for a positive zone
   count n, the allocation fails and returns no list. *)
C3_ExhaustionFails ==
    (/\ AllocationCompleted
     /\ ValidCidr(config.vpc_cidr)
     /\ config.az_count >= 1
     /\ ~CanYield(config.vpc_cidr, config.az_count)) =>
        AllocationRaised

(***************************************************************************)
(* Graphs: references, dependency edges, build order.                      *)
(***************************************************************************)
SingleRefFields ==
    {"vpcIdRef", "subnetIdRef", "routeTableIdRef", "gatewayIdRef", "securityGroupIdRef",
     "dbSubnetGroupNameRef", "clusterIdentifierRef", "monitoringRoleArnRef",
     "masterPasswordSecretRef"}

ListRefFields == {"subnetIdRefs", "vpcSecurityGroupIdRefs"}

(* the names a descriptor's payload refers to *)
NameRefs(d) ==
    LET fp == d.spec.forProvider IN
    {fp[f].name : f \in SingleRefFields \cap DOMAIN fp}
    \cup UNION {{fp[f][k].name : k \in DOMAIN fp[f]} : f \in ListRefFields \cap DOMAIN fp}

(* the logical names of a descriptor's crossplane.io/depends-on annotation *)
DependsOn(d) ==
    IF "annotations" \in DOMAIN d.metadata
    THEN Range(Get(d.metadata.annotations, DependsOnKey, <<>>))
    ELSE {}

Graph == response_obj

GraphReturned == pc = "done"

MetadataNames(g) == {g[n].metadata.name : n \in DOMAIN g}

(* C4: every name-reference of a returned graph of the name-reference
   generator is the metadata.name of a descriptor of that graph. *)
C4_ReferenceClosure ==
    (variant = "ref" /\ GraphReturned) =>
        \A n \in DOMAIN Graph : NameRefs(Graph[n]) \subseteq MetadataNames(Graph)

(* the logical names reachable from the names of `frontier` by one or more
   depends-on edges of graph g *)
Successors(g, names) ==
    UNION {DependsOn(g[n]) : n \in names \cap DOMAIN g}

RECURSIVE ReachableFrom(_, _, _)
ReachableFrom(g, frontier, seen) ==
    IF frontier \subseteq seen
    THEN seen
    ELSE ReachableFrom(g, Successors(g, frontier \ seen) , seen \cup frontier)

Prerequisites(g, n) == ReachableFrom(g, DependsOn(g[n]), {})

(* C5: the depends-on relation of a returned graph has no cycle. *)
C5_Acyclic ==
    GraphReturned => \A n \in DOMAIN Graph : n \notin Prerequisites(Graph, n)

C5_Witness ==
    /\ variant = "ref"
    /\ GraphReturned
    /\ "aurora_instance_1" \in DOMAIN Graph
    /\ "vpc" \in Prerequisites(Graph, "aurora_instance_1")

(* C6: every name in a descriptor's depends-on annotation is the logical
   name of a descriptor appended strictly earlier. *)
C6_BuildOrderTopological ==
    variant = "ref" =>
        \A k \in DOMAIN resources :
            \A n \in DependsOn(resources[k][2]) :
                \E m \in 1 .. k - 1 : resources[m][1] = n

(* C7: two invocations on the same request have the same outcome: the same
   logical names with the same descriptors, or the same failure. *)
C7_Determinism ==
    \A a, b \in DOMAIN history : history[a] = history[b]

C7_Witness ==
    /\ Len(history) = MaxInvocations
    /\ history[1].returned
    /\ IsSet(history[1].desired)

(* C8: normalization never produces a configuration whose zone count is
   below 2, so no graph is built for one. *)
C8_ZoneCountBelowTwoRejected ==
    (variant = "ref" /\ IsSet(config)) => config.az_count >= 2

(* the subnet descriptors of a graph *)
SubnetNames(g) == {n \in DOMAIN g : g[n].kind = "Subnet"}

(* C9: a returned graph has exactly az_count subnet descriptors and every
   allocated block is the cidrBlock of exactly one of them. *)
C9_SubnetPerZone ==
    (variant = "ref" /\ GraphReturned) =>
        /\ Cardinality(SubnetNames(Graph)) = config.az_count
        /\ \A k \in DOMAIN subnet_cidrs :
               Cardinality({n \in SubnetNames(Graph) :
                               Graph[n].spec.forProvider.cidrBlock = subnet_cidrs[k]}) = 1

(* the logical names every complete graph of a generator has *)
RequiredNames(v, cfg) ==
    IF v = "ref"
    THEN {"vpc", "internet_gateway", "route_table", "igw_route", "security_group",
          "security_group_rule", "egress_rule", "subnet_group", "monitoring_role",
          "aurora_cluster"}
         \cup {"aurora_instance_" \o ToString(i) : i \in 1 .. cfg.instance_count}
    ELSE {"vpc", "internet-gateway", "public-subnet-1", "public-subnet-2",
          "private-subnet-1", "private-subnet-2", "database-subnet-1",
          "database-subnet-2", "database-subnet-group", "public-route-table",
          "database-route-table", "public-route", "database-route",
          "public-rt-assoc-1", "public-rt-assoc-2", "database-rt-assoc-1",
          "database-rt-assoc-2", "aurora-security-group", "rds-monitoring-role",
          "parameter-group", "cluster-parameter-group", "aurora-cluster",
          "aurora-instance", "db-secret"}
         \cup (IF cfg.generate_password THEN {"random-password"} ELSE {})

CompleteGraph(v, cfg, list, g) ==
    /\ RequiredNames(v, cfg) \subseteq DOMAIN g
    /\ v = "ref" => DOMAIN g = Names(list)

(* C10: the caller sees either the complete graph or no descriptor: a
   failed invocation has written nothing, a returned one has written
   every descriptor that was built. *)
C10_AllOrNothing ==
    /\ pc = "failed" => ~IsSet(response_obj)
    /\ pc = "done" => CompleteGraph(variant, config, resources, response_obj)
    /\ \A a \in DOMAIN history : ~history[a].returned => ~IsSet(history[a].desired)

C10_Witness ==
    /\ pc = "failed"
    /\ IsSet(config)
    /\ error.at = "_calculate_subnet_cidrs"


(***************************************************************************)
(* Failures, defaults and pass-through.                                    *)
(***************************************************************************)
(* C11: no invocation ends by raising to the transport layer; a failure is
   carried by the returned response. *)
C11_NoExceptionToTransport == pc # "failed"

HasSpec == "spec" \in DOMAIN req

SpecOf(r) == r["spec"]

Coercible(sp, key) == key \in DOMAIN sp => IntOf(sp[key], "").ok

(* every field the spec does supply has a usable value *)
ValidWhenPresent(v, sp) ==
    v = "ref" =>
        /\ Coercible(sp, "azCount")
        /\ Coercible(sp, "backupRetentionPeriod")
        /\ Coercible(sp, "instanceCount")
        /\ "vpcCidr" \in DOMAIN sp => CanYield(sp["vpcCidr"], 0)

(* C12: a request whose spec only leaves fields out never fails: the run
   ends with a graph that has the network descriptor. *)
C12_AbsenceNeverFails ==
    (/\ HasSpec
     /\ ValidWhenPresent(variant, SpecOf(req))
     /\ pc \in {"done", "failed"}) =>
        /\ pc = "done"
        /\ "vpc" \in DOMAIN response_obj

ClusterKey(v) == IF v = "ref" THEN "aurora_cluster" ELSE "aurora-cluster"

Cluster(v, g) == g[ClusterKey(v)].spec.forProvider

(* the scaling configuration: on the cluster in the name-reference
   generator, on the instance in the selector-based one *)
Scaling(v, g) ==
    IF v = "ref"
    THEN g["aurora_cluster"].spec.forProvider.serverlessv2ScalingConfiguration[1]
    ELSE g["aurora-instance"].spec.forProvider.serverlessV2ScalingConfiguration

(* n ACUs in the unit of the generator's model *)
Acu(v, n) == IF v = "ref" THEN 2 * n ELSE n

DocumentedDefaults(v, g) ==
    /\ Cluster(v, g).engineVersion = "16.6"
    /\ Cluster(v, g).masterUsername = "postgres"
    /\ Cluster(v, g).backupRetentionPeriod = 7
    /\ Cluster(v, g).preferredBackupWindow = "06:42-07:12"
    /\ Cluster(v, g).preferredMaintenanceWindow = "wed:04:35-wed:05:05"
    /\ Cluster(v, g).deletionProtection = TRUE
    /\ Scaling(v, g).minCapacity = Acu(v, 2)
    /\ Scaling(v, g).maxCapacity = Acu(v, 16)

(* C13 as stated: a graph generated for a request that sets only the
   region (by either field name) has the documented defaults. *)
C13_Original ==
    (/\ GraphReturned
     /\ DOMAIN SpecOf(req) # {}
     /\ DOMAIN SpecOf(req) \subseteq {"location", "region"}) =>
        DocumentedDefaults(variant, Graph)

(* C13 amended: in the selector-based generator, a request that sets only
   location gets the documented defaults on the cluster descriptor and the
   capacity bounds 2 / 16 on the instance descriptor. *)
C13_SelectorDefaults ==
    (/\ variant = "sel"
     /\ GraphReturned
     /\ DOMAIN SpecOf(req) = {"location"}) =>
        DocumentedDefaults(variant, Graph)

C13_Witness ==
    /\ variant = "sel"
    /\ GraphReturned
    /\ DOMAIN SpecOf(req) = {"location"}
    /\ Cluster(variant, Graph).engineVersion = "16.6"

(* the descriptor carries the supplied field: the name-reference generator
   stores backupRetentionPeriod as the integer int() makes of it *)
Carries(v, sp, key, value) ==
    IF v = "ref" /\ key = "backupRetentionPeriod"
    THEN LET r == IntOf(sp[key], "") IN r.ok /\ r.val = value
    ELSE sp[key] = value

PassThroughFields ==
    << <<"engineVersion", "engineVersion">>,
       <<"masterUsername", "masterUsername">>,
       <<"backupRetentionPeriod", "backupRetentionPeriod">>,
       <<"backupWindow", "preferredBackupWindow">>,
       <<"maintenanceWindow", "preferredMaintenanceWindow">>,
       <<"deletionProtection", "deletionProtection">> >>

(* C14: every supplied database setting is the value the cluster
   descriptor (and the scaling configuration) carries. *)
C14_PassThrough ==
    GraphReturned =>
        LET sp == SpecOf(req) IN
        /\ \A k \in DOMAIN PassThroughFields :
               PassThroughFields[k][1] \in DOMAIN sp =>
                   Carries(variant, sp, PassThroughFields[k][1],
                           Cluster(variant, Graph)[PassThroughFields[k][2]])
        /\ "minCapacity" \in DOMAIN sp =>
               Scaling(variant, Graph).minCapacity = sp["minCapacity"]
        /\ "maxCapacity" \in DOMAIN sp =>
               Scaling(variant, Graph).maxCapacity = sp["maxCapacity"]

C14_Witness ==
    /\ GraphReturned
    /\ {"engineVersion", "masterUsername", "backupRetentionPeriod", "backupWindow",
        "maintenanceWindow", "deletionProtection", "minCapacity", "maxCapacity"}
           \subseteq DOMAIN SpecOf(req)
    /\ Cluster(variant, Graph).engineVersion = "16.7"

(***************************************************************************)
(* Credentials.                                                            *)
(***************************************************************************)
(* the literal passwords a descriptor carries *)
PasswordLiterals(d) ==
    (IF "stringData" \in DOMAIN d /\ "password" \in DOMAIN d.stringData
     THEN {d.stringData.password} ELSE {})
    \cup (IF "spec" \in DOMAIN d /\ "masterPassword" \in DOMAIN d.spec.forProvider
          THEN {d.spec.forProvider.masterPassword} ELSE {})

(* credential generation is on: by the request flag in the selector-based
   generator, always (autoGeneratePassword) in the name-reference one *)
AutoGenerate(v, cfg) == IF v = "sel" THEN cfg.generate_password ELSE TRUE

(* C15: with credential generation on, exactly one descriptor, a secret,
   carries the password and the cluster descriptor carries none. *)
C15_CredentialNotDuplicated ==
    (GraphReturned /\ AutoGenerate(variant, config)) =>
        /\ Cardinality({n \in DOMAIN Graph : PasswordLiterals(Graph[n]) # {}}) = 1
        /\ \A n \in DOMAIN Graph :
               PasswordLiterals(Graph[n]) # {} => Graph[n].kind = "Secret"
        /\ PasswordLiterals(Graph[ClusterKey(variant)]) = {}

PasswordDisabled(sp) ==
    "generatePassword" \in DOMAIN sp /\ sp["generatePassword"] = FALSE

SecretDescriptors(g) == {n \in DOMAIN g : g[n].kind \in {"Secret", "Password"}}

(* C16 as stated: no secret descriptor when generatePassword is false,
   one when it is true or absent. *)
C16_Original ==
    GraphReturned =>
        Cardinality(SecretDescriptors(Graph))
            = IF PasswordDisabled(SpecOf(req)) THEN 0 ELSE 1

(* C16 amended: in the selector-based generator the random-password
   descriptor (kind Password) is absent when generatePassword is false and
   present when it is true or absent; the db-secret descriptor (kind
   Secret) is there in both cases. *)
C16_PasswordDescriptorFollowsFlag ==
    (variant = "sel" /\ GraphReturned) =>
        /\ "random-password" \in DOMAIN Graph <=> ~PasswordDisabled(SpecOf(req))
        /\ {n \in DOMAIN Graph : Graph[n].kind = "Password"}
               = DOMAIN Graph \cap {"random-password"}
        /\ {n \in DOMAIN Graph : Graph[n].kind = "Secret"} = {"db-secret"}

C16_Witness ==
    /\ variant = "sel"
    /\ GraphReturned
    /\ PasswordDisabled(SpecOf(req))
    /\ "random-password" \notin DOMAIN Graph


(***************************************************************************)
(* Existing network, zones and instances.                                  *)
(***************************************************************************)
(* C17: a request that supplies vpcId gets a graph without a VPC
   descriptor. *)
C17_ExistingVpcReused ==
    (GraphReturned /\ "vpcId" \in DOMAIN SpecOf(req)) =>
        \A n \in DOMAIN Graph : Graph[n].kind # "VPC"

ZoneLetters == <<"a", "b", "c">>

Tiers == {"public", "private", "database"}

Zone(d) == d.spec.forProvider.availabilityZone

(* the subnets of the name-reference generator are one tier, numbered from
   0 in their metadata name *)
RefZoneMapping(cfg, g) ==
    /\ \A n \in SubnetNames(g) :
           \E i \in 0 .. Len(ZoneLetters) - 1 :
               /\ g[n].metadata.name = IndexedName(cfg, "subnet", i)
               /\ Zone(g[n]) = cfg.region \o ZoneLetters[i + 1]
    /\ \A m, n \in SubnetNames(g) : m # n => Zone(g[m]) # Zone(g[n])

(* the subnets of the selector-based generator are <tier>-subnet-<k>,
   numbered from 1 within each tier *)
SelZoneMapping(cfg, g) ==
    /\ \A n \in SubnetNames(g) :
           \E t \in Tiers, k \in DOMAIN AzSuffixes :
               /\ n = t \o "-subnet-" \o ToString(k)
               /\ Zone(g[n]) = cfg.location \o ZoneLetters[k]
    /\ \A t \in Tiers :
           Zone(g[t \o "-subnet-1"]) # Zone(g[t \o "-subnet-2"])

(* C18: the zone of the subnet at index i is the region followed by the
   i-th zone letter, whatever the region, and two subnets of one tier have
   different zones. *)
C18_ZoneMapping ==
    GraphReturned =>
        IF variant = "ref"
        THEN RefZoneMapping(config, Graph)
        ELSE SelZoneMapping(config, Graph)

C18_Witness ==
    /\ variant = "sel"
    /\ GraphReturned
    /\ config.location = "us-west-2"
    /\ Zone(Graph["database-subnet-2"]) = "us-west-2b"

InstanceNames(g) == {n \in DOMAIN g : g[n].kind = "ClusterInstance"}

(* C19: for an instance count n >= 1 the graph has exactly n instance
   descriptors; the one at index i has promotionTier i and the name
   <clusterName>-instance-<i+1>; each references the cluster and depends on
   aurora_cluster. *)
C19_InstancesPerCount ==
    (variant = "ref" /\ GraphReturned /\ config.instance_count >= 1) =>
        /\ Cardinality(InstanceNames(Graph)) = config.instance_count
        /\ \A i \in 0 .. config.instance_count - 1 :
               LET d == Graph["aurora_instance_" \o ToString(i + 1)] IN
               /\ d.kind = "ClusterInstance"
               /\ d.spec.forProvider.promotionTier = i
               /\ d.metadata.name
                      = config.postgres_cluster_name \o "-instance-" \o ToString(i + 1)
        /\ \A n \in InstanceNames(Graph) :
               /\ Graph[n].spec.forProvider.clusterIdentifierRef.name
                      = Graph["aurora_cluster"].metadata.name
               /\ "aurora_cluster" \in DependsOn(Graph[n])

C19_Witness ==
    /\ variant = "ref"
    /\ GraphReturned
    /\ config.instance_count = 2
    /\ Graph["aurora_instance_2"].spec.forProvider.promotionTier = 1

(* C20: an invocation configured with fewer than one instance ends in a
   ValidationError, not in a returned graph. *)
C20_InstanceCountBelowOneRejected ==
    (/\ variant = "ref"
     /\ IsSet(config)
     /\ pc \in {"done", "failed"}
     /\ config.instance_count < 1) =>
        /\ pc = "failed"
        /\ error.type = "ValidationError"


(***************************************************************************)
(* Capacity bounds, selectors, naming, the connection secret, the region.  *)
(***************************************************************************)
(* C21: the scaling configuration of every returned graph has
   minCapacity <= maxCapacity. *)
C21_CapacityOrdered ==
    GraphReturned =>
        Scaling(variant, Graph).minCapacity <= Scaling(variant, Graph).maxCapacity

(* the kind a selector field selects *)
SelectorKind ==
    [vpcIdSelector |-> "VPC", gatewayIdSelector |-> "InternetGateway",
     routeTableIdSelector |-> "RouteTable", subnetIdSelector |-> "Subnet"]

(* matchControllerRef selects every descriptor of the kind that the same
   composite controls, that is every one of the kind in the graph *)
Matches(g, field) == {n \in DOMAIN g : g[n].kind = SelectorKind[field]}

Selectors(d) ==
    IF "spec" \in DOMAIN d
    THEN {f \in DOMAIN SelectorKind \cap DOMAIN d.spec.forProvider :
              d.spec.forProvider[f] = Controller}
    ELSE {}

(* C22: every selector of a selector-based graph matches exactly one
   descriptor of the kind it selects. *)
C22_SelectorMatchesOne ==
    (variant = "sel" /\ GraphReturned) =>
        \A n \in DOMAIN Graph :
            \A f \in Selectors(Graph[n]) : Cardinality(Matches(Graph, f)) = 1

NameKinds ==
    {"vpc", "igw", "subnet", "route-table", "igw-route", "route-table-association",
     "security-group", "postgres-ingress", "egress-all", "subnet-group",
     "monitoring-role", "cluster", "instance"}

(* name is <claim>-<kind>-<environment> or <claim>-<kind>-<index>-<environment> *)
HasSchemeName(cfg, name, indices) ==
    \E kind \in NameKinds :
        \/ name = ResourceName(cfg, kind)
        \/ \E i \in indices : name = IndexedName(cfg, kind, i)

(* C23: every metadata.name of a graph of the name-reference generator is
   built from the claim name, a kind, an optional index and the environment
   suffix. *)
C23_NamesFollowScheme ==
    (variant = "ref" /\ GraphReturned) =>
        \A n \in DOMAIN Graph :
            HasSchemeName(config, Graph[n].metadata.name, 0 .. Cardinality(DOMAIN Graph))

SecretFields ==
    {"username", "password", "endpoint", "port", "database", "vpc_id", "subnet_group",
     "security_group"}

(* C24: the selector-based graph has the db-secret descriptor, a v1 Secret
   named vector-db-secret whose stringData has every connection field, with
   the configured username and database. *)
C24_ConnectionSecretComplete ==
    (variant = "sel" /\ GraphReturned) =>
        /\ "db-secret" \in DOMAIN Graph
        /\ LET d == Graph["db-secret"] IN
           /\ d.kind = "Secret"
           /\ d.apiVersion = "v1"
           /\ d.metadata.name = "vector-db-secret"
           /\ "crossplane.io/external-name" \in DOMAIN d.metadata.annotations
           /\ SecretFields \subseteq DOMAIN d.stringData
           /\ d.stringData.username = config.master_username
           /\ d.stringData.database = config.database_name

(* C25: a spec that sets region and no location gets that region in the
   extracted configuration. *)
C25_RegionFieldRecognized ==
    (/\ variant = "ref"
     /\ IsSet(config)
     /\ "region" \in DOMAIN SpecOf(req)
     /\ "location" \notin DOMAIN SpecOf(req)) =>
        config.region = SpecOf(req)["region"]


(***************************************************************************)
(* The phases of RunFunction of the name-reference generator.              *)
(***************************************************************************)
Terminal == {"done", "failed"}

(* Normalizing 1, Allocating 2, Building 3 (the builders and the point
   before the response is written), Done 4 *)
PhaseRank(p) ==
    IF p = "extract_config" THEN 1
    ELSE IF p = "calculate_subnet_cidrs" THEN 2
    ELSE IF p = "done" THEN 4
    ELSE 3

PhaseStep ==
    variant = "ref" =>
        /\ pc \notin {"done", "idle"} => ~IsSet(response_obj)
        /\ (pc \notin Terminal /\ pc # "idle") =>
               \/ pc' = "failed"
               \/ PhaseRank(pc') \in {PhaseRank(pc), PhaseRank(pc) + 1}
        /\ (pc \notin Terminal /\ response_obj' # response_obj) =>
               (pc = "update_response" /\ pc' = "done")
        /\ pc \in Terminal =>
               \/ pc' = "idle" /\ response_obj' = response_obj
               \/ pc' = "extract_config" /\ invocation' = invocation + 1
        /\ pc = "idle" => pc' = "idle"

(* C26: the phases run in the order Normalizing, Allocating, Building,
   Done; the response is written only by the step into Done; Failed may
   follow any phase; after Done or Failed the invocation runs no phase. *)
C26_PhaseOrder == [][PhaseStep]_vars

C26_Witness ==
    /\ variant = "ref"
    /\ invocation = 2
    /\ pc = "done"
    /\ "aurora_cluster" \in DOMAIN response_obj
    /\ history[1].returned

(***************************************************************************)
(* Subnets and their group, tiers, dependency edges, distinct names.       *)
(***************************************************************************)
(* C27: the subnet group references exactly the subnet descriptors of the
   graph, by name in subnetIdRefs and by logical name in depends-on. *)
C27_SubnetGroupMatchesSubnets ==
    (variant = "ref" /\ GraphReturned) =>
        LET group == Graph["subnet_group"] IN
        /\ {group.spec.forProvider.subnetIdRefs[k].name :
               k \in DOMAIN group.spec.forProvider.subnetIdRefs}
               = {Graph[n].metadata.name : n \in SubnetNames(Graph)}
        /\ DependsOn(group) = SubnetNames(Graph)

Block(d) == Net(d.spec.forProvider.cidrBlock)

(* C28: the six subnets of a selector-based graph have pairwise disjoint
   blocks, each strictly inside the block of the VPC descriptor. *)
C28_TiersDisjoint ==
    (variant = "sel" /\ GraphReturned) =>
        /\ SubnetNames(Graph)
               = {t \o "-subnet-" \o ToString(k) : t \in Tiers, k \in 1 .. 2}
        /\ \A m, n \in SubnetNames(Graph) :
               m # n => ~Overlaps(Block(Graph[m]), Block(Graph[n]))
        /\ \A n \in SubnetNames(Graph) :
               /\ SubnetOf(Block(Graph[n]), Block(Graph["vpc"]))
               /\ Block(Graph[n]).prefixlen > Block(Graph["vpc"]).prefixlen

C28_Witness ==
    /\ variant = "sel"
    /\ GraphReturned
    /\ Graph["database-subnet-1"].spec.forProvider.cidrBlock = Cidr(10, 0, 5, 0, 24)
    /\ Graph["public-subnet-2"].spec.forProvider.cidrBlock = Cidr(10, 0, 2, 0, 24)

(* C29: a descriptor that references another by name has the other's
   logical name in its depends-on annotation. *)
C29_ReferencesAreEdges ==
    (variant = "ref" /\ GraphReturned) =>
        \A d, p \in DOMAIN Graph :
            Graph[p].metadata.name \in NameRefs(Graph[d]) => p \in DependsOn(Graph[d])

C29_Witness ==
    /\ variant = "ref"
    /\ GraphReturned
    /\ Graph["vpc"].metadata.name \in NameRefs(Graph["subnet_0"])
    /\ "vpc" \in DependsOn(Graph["subnet_0"])

(* C30: the builders give every descriptor its own logical name, and two
   descriptors of one kind never share a metadata.name. *)
C30_NamesDistinct ==
    (variant = "ref" /\ pc \in {"update_response", "done"}) =>
        /\ \A i, j \in DOMAIN resources :
               i # j =>
                   /\ resources[i][1] # resources[j][1]
                   /\ resources[i][2].kind = resources[j][2].kind =>
                          resources[i][2].metadata.name # resources[j][2].metadata.name
        /\ pc = "done" => DOMAIN Graph = Names(resources)

C30_Witness ==
    /\ variant = "ref"
    /\ pc = "done"
    /\ {"subnet_0", "subnet_1", "aurora_instance_1", "aurora_instance_2"}
           \subseteq DOMAIN Graph

====
